---------------------------- MODULE Spec2Model ----------------------------
(***************************************************************************)
(* TaskFlow (src/TaskFlow.pyw): the task collection of TodoApp, its        *)
(* priority ordering (refresh_display / get_priority), the grouping query  *)
(* (get_same_group_items) and the reordering commands (move_to_top,        *)
(* move_up_item), together with add, edit, toggle, delete and clear.       *)
(*                                                                         *)
(* Time is counted in seconds.  Anchors typed by the user are whole        *)
(* minutes; the wall clock lives on the same scale.  None is NoTime.       *)
(* Every handler that calls refresh_display sorts self.todo_items in place *)
(* (list.sort is stable); the key of each item is computed from its own    *)
(* datetime.now() sample, taken in list order, so the samples of one       *)
(* refresh are non-decreasing and the clock may advance between two items. *)
(* Every mutating handler then calls save_data, which writes the snapshot  *)
(* of both lists and next_id to the user's data file (data_file) unless    *)
(* the file cannot be written (writable).  timer tells whether a callback  *)
(* of auto_refresh is registered with the event loop.  The window can be   *)
(* minimized to the system tray: tray_icon is self.tray_icon (set or None), *)
(* tray_threads the number of threads running a tray icon, fade_steps the  *)
(* number of fade-out chains waiting in the event loop, and pc the place   *)
(* of the UI thread and of the tray thread that runs a menu callback.      *)
(***************************************************************************)
EXTENDS Integers, Sequences, FiniteSets, TLC

VARIABLES todo_items, completed_items, next_id, now, warning,
          data_file, writable, timer,
          tray_icon, tray_threads, is_minimized_to_tray, fade_steps, pc

vars == <<todo_items, completed_items, next_id, now, warning,
          data_file, writable, timer,
          tray_icon, tray_threads, is_minimized_to_tray, fade_steps, pc>>

\* what no command handler writes
platform == <<writable, timer,
              tray_icon, tray_threads, is_minimized_to_tray, fade_steps, pc>>

(* ----------------------------- bounds --------------------------------- *)
\* number of ids add_todo_item may issue in one run
MaxId == 1
\* last instant of the modelled time scale
MaxTime == 2
\* number of open tasks in the stored collection of a reordering session
MaxStore == 3
\* number of open tasks in the stored collection of a session that also
\* completes and reopens tasks
MaxGroup == 2
\* number of records in the data file a session starts from
MaxFile == 1
\* number of tray icons, running or about to be created, up to which the
\* close button of the window is followed
MaxTray == 2

(* ------------------------- values and inputs -------------------------- *)
\* Python None for an optional datetime
NoTime == -1
\* datetime.max, the tiebreak of timeless tasks
DatetimeMax == 999999999
\* datetime.min, the sort key of a completed task without completion time
DatetimeMin == -999999999
\* seconds in a minute, an hour and a day, for the sessions that count the
\* clock in seconds
Minute == 60
Hour == 3600
Day == 86400

Times == {k * Minute : k \in 0..MaxTime}

\* TodoApp.__init__: no tray icon, the window shown, both threads idle
Started ==
    /\ tray_icon = FALSE
    /\ tray_threads = 0
    /\ is_minimized_to_tray = FALSE
    /\ fade_steps = 0
    /\ pc = [ui |-> "idle", tray |-> "idle"]
Kinds == {"instant", "long", "timeless"}
\* text of the note field after strip(): empty, or one of two notes
NoteInputs == {"", "a", "b"}
\* a date entry together with its time entry: well formed (denoting the
\* instant value), time text malformed, or date text malformed
Entries == [fmt : {"ok"}, value : Times]
           \cup {[fmt |-> "bad_time", value |-> 0], [fmt |-> "bad_date", value |-> 0]}

(* ------------------------------ TodoItem ------------------------------ *)
TodoItem(id, note, date_type, date1, date2, created) ==
    [id |-> id, note |-> note, date_type |-> date_type,
     date1 |-> date1, date2 |-> date2,
     completed |-> FALSE, completed_date |-> NoTime, created_date |-> created]

\* get_time_info with the due moment itself counted as overdue
StatusPhrase_due_moment_overdue(item, n) ==
    IF item.completed /\ item.completed_date # NoTime THEN "completed"
    ELSE IF item.date_type = "instant" THEN
        IF n < item.date1 THEN "until_due"
        ELSE IF n >= item.date1 THEN "overdue"
        ELSE "due_today"
    ELSE IF item.date_type = "long" THEN
        IF n < item.date1 THEN "until_start"
        ELSE IF item.date1 <= n /\ n <= item.date2 THEN "until_end"
        ELSE "overdue"
    ELSE "no_limit"

\* get_time_info with the end moment of a span excluded from the span
StatusPhrase_end_exclusive(item, n) ==
    IF item.completed /\ item.completed_date # NoTime THEN "completed"
    ELSE IF item.date_type = "instant" THEN
        IF n < item.date1 THEN "until_due"
        ELSE IF n > item.date1 THEN "overdue"
        ELSE "due_today"
    ELSE IF item.date_type = "long" THEN
        IF n < item.date1 THEN "until_start"
        ELSE IF item.date1 <= n /\ n < item.date2 THEN "until_end"
        ELSE "overdue"
    ELSE "no_limit"

\* get_time_info, incomplete branch: which status phrase is produced at
\* clock value n.  "overdue" = 已逾期, "until_end" = 距离结束还有,
\* "until_start" = 距离开始还有, "until_due" = 距离截止还有,
\* "due_today" = 今天到期, "no_limit" = 无时间限制.
StatusPhrase(item, n) ==
    IF item.completed /\ item.completed_date # NoTime THEN "completed"
    ELSE IF item.date_type = "instant" THEN
        IF n < item.date1 THEN "until_due"
        ELSE IF n > item.date1 THEN "overdue"
        ELSE "due_today"
    ELSE IF item.date_type = "long" THEN
        IF n < item.date1 THEN "until_start"
        ELSE IF item.date1 <= n /\ n <= item.date2 THEN "until_end"
        ELSE "overdue"
    ELSE "no_limit"

\* timedelta.days: whole days of a duration in seconds, rounded down also
\* when the duration is negative
timedelta_days(time_diff) == time_diff \div Day

\* abs(total_seconds)
Abs(total_seconds) == IF total_seconds < 0 THEN -total_seconds ELSE total_seconds

\* the amount with a whole day still counted in hours
Elapsed_day_in_hours(status, time_diff) ==
    LET total_seconds == time_diff IN
    IF total_seconds < Hour
    THEN [status |-> status, amount |-> total_seconds \div Minute, unit |-> "minutes"]
    ELSE IF total_seconds <= Day
    THEN [status |-> status, amount |-> total_seconds \div Hour, unit |-> "hours"]
    ELSE [status |-> status, amount |-> timedelta_days(time_diff), unit |-> "days"]

\* get_time_info, incomplete branch: the amount and unit that follow the
\* status phrase, for a positive time_diff in seconds
\* ("minutes" = 分钟, "hours" = 小时, "days" = 天)
Elapsed(status, time_diff) ==
    LET total_seconds == time_diff IN
    IF total_seconds < Hour
    THEN [status |-> status, amount |-> total_seconds \div Minute, unit |-> "minutes"]
    ELSE IF total_seconds < Day
    THEN [status |-> status, amount |-> total_seconds \div Hour, unit |-> "hours"]
    ELSE [status |-> status, amount |-> timedelta_days(time_diff), unit |-> "days"]

\* get_time_info, completed branch: the phrase for time_diff =
\* completed_date - due_date in seconds ("early" = 超前完成, "late" = 延后完成);
\* the day count of an early completion is -time_diff.days
CompletedPhrase(time_diff) ==
    IF time_diff < 0 THEN
        LET total_seconds == Abs(time_diff) IN
        IF total_seconds < Hour
        THEN [status |-> "early", amount |-> total_seconds \div Minute, unit |-> "minutes"]
        ELSE IF total_seconds < Day
        THEN [status |-> "early", amount |-> total_seconds \div Hour, unit |-> "hours"]
        ELSE [status |-> "early", amount |-> -timedelta_days(time_diff), unit |-> "days"]
    ELSE
        LET total_seconds == time_diff IN
        IF total_seconds < Hour
        THEN [status |-> "late", amount |-> total_seconds \div Minute, unit |-> "minutes"]
        ELSE IF total_seconds < Day
        THEN [status |-> "late", amount |-> total_seconds \div Hour, unit |-> "hours"]
        ELSE [status |-> "late", amount |-> timedelta_days(time_diff), unit |-> "days"]

\* get_time_info: the status text of the card of item at clock value n, as
\* its phrase, amount and unit.  Inside and outside the six hours around the
\* due moment the completed branch builds the same phrase.
get_time_info(item, n) ==
    LET status == StatusPhrase(item, n) IN
    IF status = "completed" THEN
        IF item.date_type = "instant" THEN
            LET time_diff == item.completed_date - item.date1 IN
            IF Abs(time_diff) <= 6 * Hour
            THEN CompletedPhrase(time_diff) ELSE CompletedPhrase(time_diff)
        ELSE IF item.date_type = "long" THEN
            LET time_diff == item.completed_date - item.date2 IN
            IF Abs(time_diff) <= 6 * Hour
            THEN CompletedPhrase(time_diff) ELSE CompletedPhrase(time_diff)
        ELSE [status |-> "completed_at", amount |-> item.completed_date, unit |-> "moment"]
    ELSE IF status = "until_due" THEN Elapsed(status, item.date1 - n)
    ELSE IF status = "until_start" THEN Elapsed(status, item.date1 - n)
    ELSE IF status = "until_end" THEN Elapsed(status, item.date2 - n)
    ELSE IF status = "overdue" THEN
        IF item.date_type = "instant" THEN Elapsed(status, n - item.date1)
        ELSE Elapsed(status, n - item.date2)
    ELSE [status |-> status, amount |-> 0, unit |-> ""]

(* ----------------------- refresh_display: sort ------------------------ *)
\* get_priority with the ongoing tier mistaken for the not-yet-due tier
get_priority_ongoing_as_pending(item, n) ==
    LET status == StatusPhrase(item, n) IN
    IF item.completed THEN
        <<3, IF item.completed_date # NoTime THEN item.completed_date ELSE DatetimeMax>>
    ELSE IF item.date_type = "timeless" THEN <<2, DatetimeMax>>
    ELSE IF status = "overdue" THEN
        IF item.date_type = "instant" THEN <<0, item.date1>> ELSE <<0, item.date2>>
    ELSE IF status = "until_end" THEN <<2, item.date2>>
    ELSE <<2, item.date1>>

\* get_priority: the sort key <<tier, tiebreak>> of item at clock value n
get_priority(item, n) ==
    LET status == StatusPhrase(item, n) IN
    IF item.completed THEN
        <<3, IF item.completed_date # NoTime THEN item.completed_date ELSE DatetimeMax>>
    ELSE IF item.date_type = "timeless" THEN <<2, DatetimeMax>>
    ELSE IF status = "overdue" THEN
        IF item.date_type = "instant" THEN <<0, item.date1>> ELSE <<0, item.date2>>
    ELSE IF status = "until_end" THEN <<1, item.date2>>
    ELSE <<2, item.date1>>

\* tuple comparison k1 <= k2
KeyLE(k1, k2) == k1[1] < k2[1] \/ (k1[1] = k2[1] /\ k1[2] <= k2[2])

\* an unstable sort: an element goes before the elements with its own key
InsertUnstable(sorted, p) ==
    LET pos == Cardinality({i \in 1..Len(sorted) :
                              KeyLE(sorted[i].key, p.key) /\ sorted[i].key # p.key})
    IN SubSeq(sorted, 1, pos) \o <<p>> \o SubSeq(sorted, pos + 1, Len(sorted))

\* list.sort(key=...) is stable: an element goes after every element whose
\* key is not greater than its own
InsertStable(sorted, p) ==
    LET pos == Cardinality({i \in 1..Len(sorted) : KeyLE(sorted[i].key, p.key)})
    IN SubSeq(sorted, 1, pos) \o <<p>> \o SubSeq(sorted, pos + 1, Len(sorted))

RECURSIVE SortPairs(_)
SortPairs(s) ==
    IF s = <<>> THEN <<>>
    ELSE InsertStable(SortPairs(SubSeq(s, 1, Len(s) - 1)), s[Len(s)])

\* the clock sample of the i-th item of a refresh that starts at t0 and
\* during which the clock advances after the first `split` items
SampleAt(i, t0, split) == IF i > split THEN t0 + Minute ELSE t0

\* self.todo_items.sort(key=get_priority)
SortTodo(items, t0, split) ==
    LET pairs == [i \in 1..Len(items) |->
                    [item |-> items[i],
                     key |-> get_priority(items[i], SampleAt(i, t0, split))]]
        sorted == SortPairs(pairs)
    IN [i \in 1..Len(items) |-> sorted[i].item]

\* clock value when the refresh returns
ClockAfter(items, t0, split) == IF split < Len(items) THEN t0 + Minute ELSE t0

(* ------------------------------ save_data ----------------------------- *)
\* strftime('%Y-%m-%d %H:%M'): the text keeps the minute and drops the
\* seconds; the value is the moment strptime reads back from the text
strftime(t) == t - (t % Minute)

\* TodoItem.to_dict: the record written for one task
to_dict(item) ==
    [id |-> item.id, note |-> item.note, date_type |-> item.date_type,
     date1 |-> IF item.date1 # NoTime THEN strftime(item.date1) ELSE NoTime,
     date2 |-> IF item.date2 # NoTime THEN strftime(item.date2) ELSE NoTime,
     completed |-> item.completed,
     completed_date |-> IF item.completed_date # NoTime
                        THEN strftime(item.completed_date) ELSE NoTime,
     created_date |-> strftime(item.created_date)]

\* the data file save_data writes from the two lists and next_id
Snapshot(todo, completed, id) ==
    [todo_items |-> [i \in 1..Len(todo) |-> to_dict(todo[i])],
     completed_items |-> [i \in 1..Len(completed) |-> to_dict(completed[i])],
     next_id |-> id,
     damage |-> "none"]

\* no data file yet
NoFile == [todo_items |-> <<>>, completed_items |-> <<>>, next_id |-> 1,
           damage |-> "missing"]

\* save_data called before the handler changes the lists
save_data_before_mutation ==
    data_file' = IF writable
                 THEN Snapshot(todo_items, completed_items, next_id)
                 ELSE data_file

\* save_data at the end of a handler: the lists and next_id the handler
\* leaves are written; when the file cannot be written the failure is shown
\* in the status line and the file keeps its content
save_data ==
    data_file' = IF writable
                 THEN Snapshot(todo_items', completed_items', next_id')
                 ELSE data_file

\* the tail of a handler that has changed the lists to items and completed:
\* refresh_display sorts the master list in place
Refreshed(items, completed, split) ==
    /\ split \in 0..Len(items)
    /\ split < Len(items) => now < MaxTime * Minute
    /\ todo_items' = SortTodo(items, now, split)
    /\ completed_items' = completed
    /\ now' = ClockAfter(items, now, split)
    /\ UNCHANGED <<warning, platform>>

\* the tail of a mutating handler: refresh_display, then save_data
Committed(items, completed, split) ==
    /\ Refreshed(items, completed, split)
    /\ save_data

\* a handler that shows a message box and returns before changing anything;
\* warning is the last message box shown: the handler and its reason
Returned(op, why) ==
    /\ UNCHANGED <<todo_items, completed_items, next_id, now, data_file, platform>>
    /\ warning' = [op |-> op, why |-> why]

(* ------------------------------ helpers ------------------------------- *)
Range(s) == {s[i] : i \in 1..Len(s)}
\* list.index(x)
IndexOf(s, x) == CHOOSE i \in 1..Len(s) : s[i] = x /\ \A j \in 1..(i - 1) : s[j] # x
\* list.remove(x)
Remove(s, x) == LET i == IndexOf(s, x) IN SubSeq(s, 1, i - 1) \o SubSeq(s, i + 1, Len(s))
\* list.insert(i, x), positions counted from 1
InsertAt(s, i, x) == SubSeq(s, 1, i - 1) \o <<x>> \o SubSeq(s, i, Len(s))

\* the test with an end equal to the start let through
end_before_start(start_time, end_time) == end_time < start_time

\* the test `end_time <= start_time` of add_todo_item and save_changes
end_not_after_start(start_time, end_time) == end_time <= start_time

validate_time_format(e) == e.fmt # "bad_time"
parse_datetime(e) == IF e.fmt = "ok" THEN e.value ELSE NoTime

(* -------------------------------- Init -------------------------------- *)
\* initialize_application with no data file: empty lists, next_id = 1,
\* followed by refresh_display; the session may start at any clock value
Init ==
    /\ todo_items = <<>>
    /\ completed_items = <<>>
    /\ next_id = 1
    /\ now \in Times
    /\ warning = [op |-> "", why |-> ""]
    /\ data_file = NoFile
    /\ writable = TRUE
    /\ timer = FALSE
    /\ Started

\* the (date_type, date1, date2) combinations add and edit can produce
Shapes ==
    {<<"timeless", NoTime, NoTime>>}
    \cup {<<"instant", d, NoTime>> : d \in Times}
    \cup {<<"long", d[1], d[2]>> : d \in {x \in Times \X Times : x[1] < x[2]}}

\* initialize_application over a stored collection: load_data rebuilds the
\* open tasks (from_dict), next_id becomes max(max id + 1, stored next_id),
\* and refresh_display sorts them at the clock of the session's start.
\* Ids are unique; they name the tasks in the order that first sort leaves.
Loaded(max) ==
    /\ now \in Times
    /\ \E n \in 0..max : \E f \in [1..n -> Shapes] :
         LET loaded == [i \in 1..n |-> TodoItem(i, "a", f[i][1], f[i][2], f[i][3], 0)]
         IN /\ loaded = SortTodo(loaded, now, n)
            /\ todo_items = loaded
            /\ next_id = n + 1
            /\ data_file = Snapshot(loaded, <<>>, n + 1)
    /\ completed_items = <<>>
    /\ warning = [op |-> "", why |-> ""]
    /\ writable = TRUE
    /\ timer = FALSE
    /\ Started

InitStore == Loaded(MaxStore)

InitGroup == Loaded(MaxGroup)

\* initialize_application over a stored collection whose data file can be
\* written, or cannot (the session's saves all fail)
InitDisk ==
    /\ now \in Times
    /\ \E n \in 0..MaxGroup : \E f \in [1..n -> Shapes] :
         LET loaded == [i \in 1..n |-> TodoItem(i, "a", f[i][1], f[i][2], f[i][3], 0)]
         IN /\ loaded = SortTodo(loaded, now, n)
            /\ todo_items = loaded
            /\ next_id = n + 1
            /\ data_file = Snapshot(loaded, <<>>, n + 1)
    /\ completed_items = <<>>
    /\ warning = [op |-> "", why |-> ""]
    /\ writable \in BOOLEAN
    /\ timer = FALSE
    /\ Started

(* ------------------ completed tasks: display and counts --------------- *)
\* key=lambda x: x.completed_date if x.completed_date else datetime.min
CompletedKey(x) == IF x.completed_date # NoTime THEN x.completed_date ELSE DatetimeMin

\* a sort that puts the earliest completion first
InsertDescending_earliest_first(sorted, x) ==
    LET pos == Cardinality({i \in 1..Len(sorted) :
                              CompletedKey(sorted[i]) <= CompletedKey(x)})
    IN SubSeq(sorted, 1, pos) \o <<x>> \o SubSeq(sorted, pos + 1, Len(sorted))

\* sorted(..., reverse=True) is stable: an element goes after every element
\* whose key is not less than its own
InsertDescending(sorted, x) ==
    LET pos == Cardinality({i \in 1..Len(sorted) :
                              CompletedKey(sorted[i]) >= CompletedKey(x)})
    IN SubSeq(sorted, 1, pos) \o <<x>> \o SubSeq(sorted, pos + 1, Len(sorted))

\* completed_sorted: the completed tasks in the order refresh_display and
\* export_completed_tasks show them; self.completed_items is not changed
RECURSIVE completed_sorted(_)
completed_sorted(items) ==
    IF items = <<>> THEN <<>>
    ELSE InsertDescending(completed_sorted(SubSeq(items, 1, Len(items) - 1)),
                          items[Len(items)])

Buckets == {"on_time", "early", "late", "timeless"}

\* the counter with the six hours themselves outside the on-time window
stats_bucket_six_hours_late(item) ==
    IF ~item.completed \/ item.completed_date = NoTime THEN "skipped"
    ELSE IF item.date_type = "timeless" THEN "timeless"
    ELSE LET due_date == IF item.date_type = "instant" THEN item.date1 ELSE item.date2
             total_seconds == item.completed_date - due_date
         IN IF Abs(total_seconds) < 6 * Hour THEN "on_time"
            ELSE IF total_seconds < 0 THEN "early"
            ELSE "late"

\* get_completed_task_stats: the counter one item of completed_items adds
\* to; an item without completion time is skipped
stats_bucket(item) ==
    IF ~item.completed \/ item.completed_date = NoTime THEN "skipped"
    ELSE IF item.date_type = "timeless" THEN "timeless"
    ELSE LET due_date == IF item.date_type = "instant" THEN item.date1 ELSE item.date2
             total_seconds == item.completed_date - due_date
         IN IF Abs(total_seconds) <= 6 * Hour THEN "on_time"
            ELSE IF total_seconds < 0 THEN "early"
            ELSE "late"

\* get_completed_task_stats: the four counters
get_completed_task_stats(items) ==
    [b \in Buckets |->
       Cardinality({i \in 1..Len(items) : stats_bucket(items[i]) = b})]

\* export_completed_tasks: the group one item is appended to; the
\* subtraction raises for a dated item without completion time
export_bucket(item) ==
    IF item.date_type = "timeless" THEN "timeless"
    ELSE IF item.completed_date = NoTime THEN "raises"
    ELSE LET due_date == IF item.date_type = "instant" THEN item.date1 ELSE item.date2
             total_seconds == item.completed_date - due_date
         IN IF Abs(total_seconds) <= 6 * Hour THEN "on_time"
            ELSE IF total_seconds < 0 THEN "early"
            ELSE "late"

\* export_completed_tasks: the four groups, each in the order of
\* completed_sorted
export_groups(items) ==
    [b \in Buckets |->
       SelectSeq(completed_sorted(items), LAMBDA x : export_bucket(x) = b)]

(* ------------------------ sessions in seconds ------------------------- *)
\* start of the span of the stored task, in seconds; the due moment of the
\* stored Instant task is the same moment
CardStart == 216000
\* end of the span
CardEnd == CardStart + 2 * Day

\* distances in seconds between the clock and an anchor: around the minute,
\* hour, six-hour and day boundaries
CardOffsets ==
    {0, 1, 59, Minute, 1800, Hour - 1, Hour, 5 * Hour, 6 * Hour, 6 * Hour + 1,
     Day - 1, Day, Day + 1}

\* the clock values of the session
CardInstants ==
    {a + k : a \in {CardStart, CardEnd}, k \in CardOffsets}
    \cup {a - k : a \in {CardStart, CardEnd}, k \in CardOffsets}

CardShapes ==
    {<<"timeless", NoTime, NoTime>>, <<"instant", CardStart, NoTime>>,
     <<"long", CardStart, CardEnd>>}

\* initialize_application over one stored open task
InitCards ==
    /\ now \in CardInstants
    /\ \E sh \in CardShapes :
         todo_items = <<TodoItem(1, "a", sh[1], sh[2], sh[3], CardStart - 2 * Day)>>
    /\ completed_items = <<>>
    /\ next_id = 2
    /\ warning = [op |-> "", why |-> ""]
    /\ data_file = Snapshot(todo_items, <<>>, 2)
    /\ writable = TRUE
    /\ timer = FALSE
    /\ Started

\* the wall clock reaches a later moment between two commands
ClockJump ==
    /\ \E n \in CardInstants : n > now /\ now' = n
    /\ UNCHANGED <<todo_items, completed_items, next_id, warning, data_file, platform>>

\* number of stored tasks of a session that counts its completed tasks
MaxStats == 2

\* distances in seconds between a completion and the due moment: at and
\* around the six hours
StatOffsets == {0, 1, 6 * Hour, 6 * Hour + 1}

StatInstants ==
    {CardStart + k : k \in StatOffsets} \cup {CardStart - k : k \in StatOffsets}

\* the stored tasks are due at the one moment CardStart
StatShapes ==
    {<<"timeless", NoTime, NoTime>>, <<"instant", CardStart, NoTime>>,
     <<"long", CardStart - Day, CardStart>>}

\* initialize_application over a stored collection of open tasks
InitStats ==
    /\ now \in StatInstants
    /\ \E n \in 1..MaxStats : \E f \in [1..n -> StatShapes] :
         LET loaded == [i \in 1..n |->
                          TodoItem(i, "a", f[i][1], f[i][2], f[i][3], CardStart - 2 * Day)]
         IN /\ loaded = SortTodo(loaded, now, n)
            /\ todo_items = loaded
            /\ next_id = n + 1
            /\ data_file = Snapshot(loaded, <<>>, n + 1)
    /\ completed_items = <<>>
    /\ warning = [op |-> "", why |-> ""]
    /\ writable = TRUE
    /\ timer = FALSE
    /\ Started

ClockStep ==
    /\ \E n \in StatInstants : n > now /\ now' = n
    /\ UNCHANGED <<todo_items, completed_items, next_id, warning, data_file, platform>>

(* ------------------------------ load_data ----------------------------- *)
\* TodoItem.from_dict: the task built from one record of the data file
from_dict(data) ==
    [id |-> data.id, note |-> data.note, date_type |-> data.date_type,
     date1 |-> data.date1, date2 |-> data.date2,
     completed |-> data.completed, completed_date |-> data.completed_date,
     created_date |-> data.created_date]

\* where reading the data file fails: the file does not exist ("missing"),
\* it is read without error ("none"), json.load raises ("json"), from_dict
\* raises on a record of todo_items or on a record of completed_items
Damages == {"missing", "none", "json", "todo_items", "completed_items"}

\* max(item.id for item in all_items)
MaxIdOf(all_items) ==
    CHOOSE m \in {all_items[i].id : i \in 1..Len(all_items)} :
        \A i \in 1..Len(all_items) : all_items[i].id <= m

\* load_data over the data file: the lists and next_id it leaves, starting
\* from the empty lists and next_id = 1 of initialize_application, and
\* whether it showed its warning.  The three assignments run in order inside
\* one try block, so a failure in completed_items leaves todo_items loaded.
load_data(file) ==
    LET blank == [todo_items |-> <<>>, completed_items |-> <<>>, next_id |-> 1]
        todo == [i \in 1..Len(file.todo_items) |-> from_dict(file.todo_items[i])]
        completed == [i \in 1..Len(file.completed_items) |->
                        from_dict(file.completed_items[i])]
        all_items == todo \o completed
    IN IF file.damage = "missing" THEN [state |-> blank, warned |-> FALSE]
       ELSE IF file.damage \in {"json", "todo_items"}
       THEN [state |-> blank, warned |-> TRUE]
       ELSE IF file.damage = "completed_items"
       THEN [state |-> [blank EXCEPT !.todo_items = todo], warned |-> TRUE]
       ELSE [state |-> [todo_items |-> todo, completed_items |-> completed,
                        next_id |-> IF all_items # <<>>
                                    THEN (IF MaxIdOf(all_items) + 1 > file.next_id
                                          THEN MaxIdOf(all_items) + 1
                                          ELSE file.next_id)
                                    ELSE file.next_id],
             warned |-> FALSE]

\* the records save_data can have written for one task: open, or completed
\* at some moment
StoredRecords(id) ==
    {[TodoItem(id, "a", sh[1], sh[2], sh[3], 0)
        EXCEPT !.completed = (done # NoTime), !.completed_date = done] :
       sh \in Shapes, done \in {NoTime} \cup Times}

\* the data files a session can start from: a snapshot save_data wrote (open
\* records, completed records, next_id above every id, one id possibly
\* retired by a delete), read back with or without damage
StoredFiles ==
    {[todo_items |-> SelectSeq(recs, LAMBDA r : ~r.completed),
      completed_items |-> SelectSeq(recs, LAMBDA r : r.completed),
      next_id |-> Len(recs) + 1 + retired,
      damage |-> damage] :
       recs \in UNION {{r \in [1..n -> UNION {StoredRecords(i) : i \in 1..n}] :
                            \A i \in 1..n : r[i].id = i} : n \in 0..MaxFile},
       retired \in {0, 1},
       damage \in Damages}

\* initialize_application: empty lists and next_id = 1, load_data, then
\* refresh_display
InitLoad ==
    /\ now \in Times
    /\ \E file \in StoredFiles :
         LET loaded == load_data(file) IN
         /\ todo_items = SortTodo(loaded.state.todo_items, now,
                                  Len(loaded.state.todo_items))
         /\ completed_items = loaded.state.completed_items
         /\ next_id = loaded.state.next_id
         /\ warning = IF loaded.warned
                       THEN [op |-> "load_data", why |-> "data_error"]
                       ELSE [op |-> "", why |-> ""]
         /\ data_file = file
    /\ writable = TRUE
    /\ timer = FALSE
    /\ Started

(* ------------------------------ actions ------------------------------- *)
\* the wall clock advances between two commands
Tick ==
    /\ now < MaxTime * Minute
    /\ now' = now + Minute
    /\ UNCHANGED <<todo_items, completed_items, next_id, warning, data_file, platform>>

\* add_todo_item: the item appended when the form passes validation
AddAppend(item) ==
    /\ next_id' = next_id + 1
    /\ \E split \in 0..(Len(todo_items) + 1) :
         Committed(Append(todo_items, item), completed_items, split)

add_todo_item(note, type, e1, e2) ==
    IF note = "" THEN Returned("add_todo_item", "empty_note")
    ELSE IF type = "instant" THEN
        IF ~validate_time_format(e1) THEN Returned("add_todo_item", "time_format")
        ELSE IF parse_datetime(e1) = NoTime THEN Returned("add_todo_item", "date_format")
        ELSE AddAppend(TodoItem(next_id, note, "instant", parse_datetime(e1), NoTime, now))
    ELSE IF type = "long" THEN
        IF ~validate_time_format(e1) \/ ~validate_time_format(e2)
        THEN Returned("add_todo_item", "time_format")
        ELSE IF parse_datetime(e1) = NoTime \/ parse_datetime(e2) = NoTime
        THEN Returned("add_todo_item", "date_format")
        ELSE IF end_not_after_start(parse_datetime(e1), parse_datetime(e2))
        THEN Returned("add_todo_item", "end_not_after_start")
        ELSE AddAppend(TodoItem(next_id, note, "long", parse_datetime(e1), parse_datetime(e2), now))
    ELSE AddAppend(TodoItem(next_id, note, "timeless", NoTime, NoTime, now))

\* an edit to an instant task that leaves the old end in date2
EditStore_keeps_date2(item, note, type, d1, d2) ==
    LET new == [item EXCEPT !.note = note, !.date_type = type, !.date1 = d1,
                            !.date2 = IF type = "instant" THEN item.date2 ELSE d2]
        upd(s) == [i \in 1..Len(s) |-> IF s[i] = item THEN new ELSE s[i]]
    IN /\ next_id' = next_id
       /\ \E split \in 0..Len(todo_items) :
            Committed(upd(todo_items), upd(completed_items), split)

\* save_changes that builds a new record for the edited task
EditStore_new_record(item, note, type, d1, d2) ==
    LET new == TodoItem(item.id, note, type, d1, d2, now)
        upd(s) == [i \in 1..Len(s) |-> IF s[i] = item THEN new ELSE s[i]]
    IN /\ next_id' = next_id
       /\ \E split \in 0..Len(todo_items) :
            Committed(upd(todo_items), upd(completed_items), split)

\* edit_item.save_changes: the record is updated in place, in whichever
\* list holds it, and the display is refreshed
EditStore(item, note, type, d1, d2) ==
    LET new == [item EXCEPT !.note = note, !.date_type = type, !.date1 = d1, !.date2 = d2]
        upd(s) == [i \in 1..Len(s) |-> IF s[i] = item THEN new ELSE s[i]]
    IN /\ next_id' = next_id
       /\ \E split \in 0..Len(todo_items) :
            Committed(upd(todo_items), upd(completed_items), split)

\* a message box shown after the note of the edited record has been stored
NoteStoredThenReturned(item, note, why) ==
    LET new == [item EXCEPT !.note = note]
        upd(s) == [i \in 1..Len(s) |-> IF s[i] = item THEN new ELSE s[i]]
    IN /\ todo_items' = upd(todo_items)
       /\ completed_items' = upd(completed_items)
       /\ UNCHANGED <<next_id, now, data_file, platform>>
       /\ warning' = [op |-> "save_changes", why |-> why]

\* save_changes that stores the new note before it validates the dates
save_changes_note_first(item, note, type, e1, e2) ==
    IF note = "" THEN Returned("save_changes", "empty_note")
    ELSE IF type = "instant" THEN
        IF ~validate_time_format(e1) THEN NoteStoredThenReturned(item, note, "time_format")
        ELSE IF parse_datetime(e1) = NoTime
        THEN NoteStoredThenReturned(item, note, "date_format")
        ELSE EditStore(item, note, "instant", parse_datetime(e1), NoTime)
    ELSE IF type = "long" THEN
        IF ~validate_time_format(e1) \/ ~validate_time_format(e2)
        THEN NoteStoredThenReturned(item, note, "time_format")
        ELSE IF parse_datetime(e1) = NoTime \/ parse_datetime(e2) = NoTime
        THEN NoteStoredThenReturned(item, note, "date_format")
        ELSE IF end_not_after_start(parse_datetime(e1), parse_datetime(e2))
        THEN NoteStoredThenReturned(item, note, "end_not_after_start")
        ELSE EditStore(item, note, "long", parse_datetime(e1), parse_datetime(e2))
    ELSE EditStore(item, note, "timeless", NoTime, NoTime)

save_changes(item, note, type, e1, e2) ==
    IF note = "" THEN Returned("save_changes", "empty_note")
    ELSE IF type = "instant" THEN
        IF ~validate_time_format(e1) THEN Returned("save_changes", "time_format")
        ELSE IF parse_datetime(e1) = NoTime THEN Returned("save_changes", "date_format")
        ELSE EditStore(item, note, "instant", parse_datetime(e1), NoTime)
    ELSE IF type = "long" THEN
        IF ~validate_time_format(e1) \/ ~validate_time_format(e2)
        THEN Returned("save_changes", "time_format")
        ELSE IF parse_datetime(e1) = NoTime \/ parse_datetime(e2) = NoTime
        THEN Returned("save_changes", "date_format")
        ELSE IF end_not_after_start(parse_datetime(e1), parse_datetime(e2))
        THEN Returned("save_changes", "end_not_after_start")
        ELSE EditStore(item, note, "long", parse_datetime(e1), parse_datetime(e2))
    ELSE EditStore(item, note, "timeless", NoTime, NoTime)

\* get_same_group_items with a spanning group keyed on the start alone
get_same_group_items_start_only(items, todo_item) ==
    IF todo_item.completed THEN <<>>
    ELSE IF todo_item.date_type = "timeless" THEN
        SelectSeq(items, LAMBDA item : item.date_type = "timeless" /\ ~item.completed)
    ELSE IF todo_item.date_type = "instant" THEN
        SelectSeq(items, LAMBDA item : /\ item.date_type = "instant" /\ ~item.completed
                                       /\ item.date1 = todo_item.date1)
    ELSE IF todo_item.date_type = "long" THEN
        SelectSeq(items, LAMBDA item : /\ item.date_type = "long" /\ ~item.completed
                                       /\ item.date1 = todo_item.date1)
    ELSE <<>>

\* get_same_group_items with an instant group that takes every earlier due
\* moment as well
get_same_group_items_due_or_earlier(items, todo_item) ==
    IF todo_item.completed THEN <<>>
    ELSE IF todo_item.date_type = "timeless" THEN
        SelectSeq(items, LAMBDA item : item.date_type = "timeless" /\ ~item.completed)
    ELSE IF todo_item.date_type = "instant" THEN
        SelectSeq(items, LAMBDA item : /\ item.date_type = "instant" /\ ~item.completed
                                       /\ item.date1 <= todo_item.date1)
    ELSE IF todo_item.date_type = "long" THEN
        SelectSeq(items, LAMBDA item : /\ item.date_type = "long" /\ ~item.completed
                                       /\ item.date1 = todo_item.date1
                                       /\ item.date2 = todo_item.date2)
    ELSE <<>>

\* get_same_group_items (the second definition, which shadows the first),
\* over the master list items
get_same_group_items(items, todo_item) ==
    IF todo_item.completed THEN <<>>
    ELSE IF todo_item.date_type = "timeless" THEN
        SelectSeq(items, LAMBDA item : item.date_type = "timeless" /\ ~item.completed)
    ELSE IF todo_item.date_type = "instant" THEN
        SelectSeq(items, LAMBDA item : /\ item.date_type = "instant" /\ ~item.completed
                                       /\ item.date1 = todo_item.date1)
    ELSE IF todo_item.date_type = "long" THEN
        SelectSeq(items, LAMBDA item : /\ item.date_type = "long" /\ ~item.completed
                                       /\ item.date1 = todo_item.date1
                                       /\ item.date2 = todo_item.date2)
    ELSE <<>>

\* both reorder commands return early unless the task has a predecessor
\* in its group: len(same_group_items) <= 1 or current_index == 0
HasGroupPredecessor(items, todo_item) ==
    LET same_group_items == get_same_group_items(items, todo_item) IN
    /\ Len(same_group_items) > 1
    /\ IndexOf(same_group_items, todo_item) # 1

\* move_to_top that puts the task before its predecessor in the group, not
\* before the first member
MoveToTopList_before_predecessor(items, todo_item) ==
    LET same_group_items == get_same_group_items(items, todo_item)
        current_index == IndexOf(same_group_items, todo_item)
        removed == Remove(items, todo_item)
        previous_index == IndexOf(removed, same_group_items[current_index - 1])
    IN InsertAt(removed, previous_index, todo_item)

\* move_to_top that puts the task at the head of the whole list
MoveToTopList_head_of_list(items, todo_item) ==
    InsertAt(Remove(items, todo_item), 1, todo_item)

\* move_to_top: the master list handed to refresh_display
MoveToTopList(items, todo_item) ==
    LET same_group_items == get_same_group_items(items, todo_item)
        removed == Remove(items, todo_item)
        first_group_index == IndexOf(removed, same_group_items[1])
    IN InsertAt(removed, first_group_index, todo_item)

move_to_top(todo_item) ==
    IF ~HasGroupPredecessor(todo_items, todo_item)
    THEN UNCHANGED vars
    ELSE /\ next_id' = next_id
         /\ \E split \in 0..Len(todo_items) :
              Committed(MoveToTopList(todo_items, todo_item), completed_items, split)

\* move_up_item: the master list handed to refresh_display
MoveUpList(items, todo_item) ==
    LET same_group_items == get_same_group_items(items, todo_item)
        current_index == IndexOf(same_group_items, todo_item)
        previous_item == same_group_items[current_index - 1]
        todo_index == IndexOf(items, todo_item)
        previous_index == IndexOf(items, previous_item)
    IN [items EXCEPT ![todo_index] = previous_item, ![previous_index] = todo_item]

move_up_item(todo_item) ==
    IF ~HasGroupPredecessor(todo_items, todo_item)
    THEN UNCHANGED vars
    ELSE /\ next_id' = next_id
         /\ \E split \in 0..Len(todo_items) :
              Committed(MoveUpList(todo_items, todo_item), completed_items, split)

\* toggle_completion that appends to the other list and removes nothing
toggle_completion_without_remove(todo_item) ==
    /\ next_id' = next_id
    /\ IF ~todo_item.completed
       THEN LET done == [todo_item EXCEPT !.completed = TRUE, !.completed_date = now]
            IN \E split \in 0..Len(todo_items) :
                 Committed(todo_items, Append(completed_items, done), split)
       ELSE LET open == [todo_item EXCEPT !.completed = FALSE, !.completed_date = NoTime]
            IN \E split \in 0..(Len(todo_items) + 1) :
                 Committed(Append(todo_items, open), completed_items, split)

toggle_completion(todo_item) ==
    /\ next_id' = next_id
    /\ IF ~todo_item.completed
       THEN LET done == [todo_item EXCEPT !.completed = TRUE, !.completed_date = now]
            IN \E split \in 0..(Len(todo_items) - 1) :
                 Committed(Remove(todo_items, todo_item),
                           Append(completed_items, done), split)
       ELSE LET open == [todo_item EXCEPT !.completed = FALSE, !.completed_date = NoTime]
            IN \E split \in 0..(Len(todo_items) + 1) :
                 Committed(Append(todo_items, open),
                           Remove(completed_items, todo_item), split)

\* delete_item_with_confirmation; confirm is the answer to askyesno
delete_item_with_confirmation(todo_item, confirm) ==
    IF ~confirm THEN UNCHANGED vars
    ELSE /\ next_id' = next_id
         /\ IF todo_item \in Range(completed_items)
            THEN \E split \in 0..Len(todo_items) :
                   Committed(todo_items, Remove(completed_items, todo_item), split)
            ELSE \E split \in 0..(Len(todo_items) - 1) :
                   Committed(Remove(todo_items, todo_item), completed_items, split)

\* clear_completed, with either of the two clearing buttons
clear_completed ==
    IF completed_items = <<>> THEN Returned("clear_completed", "nothing_to_clear")
    ELSE /\ next_id' = next_id
         /\ \E split \in 0..Len(todo_items) :
              Committed(todo_items, <<>>, split)

\* refresh_display on its own (refresh button)
refresh_display ==
    /\ next_id' = next_id
    /\ \E split \in 0..Len(todo_items) :
         Refreshed(todo_items, completed_items, split)
    /\ UNCHANGED data_file

\* auto_refresh, a callback of the event loop: it runs only when it has been
\* registered with root.after, and registers itself again.  No statement of
\* the program registers it or calls it, so it is a step of no session.
auto_refresh ==
    /\ timer
    /\ next_id' = next_id
    /\ \E split \in 0..Len(todo_items) :
         Refreshed(todo_items, completed_items, split)
    /\ UNCHANGED data_file

\* the user's data is opened again.  quit_app and switch_user call save_data
\* first (quit); a process that is killed does not.  initialize_application
\* then empties the lists and sets next_id to 1, load_data reads the data
\* file, and refresh_display sorts the open tasks.
initialize_application(quit) ==
    LET file == IF quit /\ writable
                THEN Snapshot(todo_items, completed_items, next_id)
                ELSE data_file
        loaded == load_data(file)
    IN /\ data_file' = file
       /\ next_id' = loaded.state.next_id
       /\ warning' = IF loaded.warned
                      THEN [op |-> "load_data", why |-> "data_error"]
                      ELSE [op |-> "", why |-> ""]
       /\ \E split \in 0..Len(loaded.state.todo_items) :
            /\ split < Len(loaded.state.todo_items) => now < MaxTime * Minute
            /\ todo_items' = SortTodo(loaded.state.todo_items, now, split)
            /\ now' = ClockAfter(loaded.state.todo_items, now, split)
       /\ completed_items' = loaded.state.completed_items
       /\ UNCHANGED platform

AllItems == Range(todo_items) \cup Range(completed_items)

\* the entries a form of the given kind reads
FirstEntries(type) == IF type = "timeless" THEN {[fmt |-> "ok", value |-> 0]} ELSE Entries
SecondEntries(type) == IF type = "long" THEN Entries ELSE {[fmt |-> "ok", value |-> 0]}

Next ==
    \/ Tick
    \/ \E note \in NoteInputs, type \in Kinds :
         \E e1 \in FirstEntries(type), e2 \in SecondEntries(type) :
           next_id <= MaxId /\ add_todo_item(note, type, e1, e2)
    \/ \E item \in AllItems, note \in NoteInputs, type \in Kinds :
         \E e1 \in FirstEntries(type), e2 \in SecondEntries(type) :
           save_changes(item, note, type, e1, e2)
    \/ \E item \in AllItems : move_to_top(item)
    \/ \E item \in AllItems : move_up_item(item)
    \/ \E item \in AllItems : toggle_completion(item)
    \/ \E item \in AllItems, confirm \in BOOLEAN : delete_item_with_confirmation(item, confirm)
    \/ clear_completed
    \/ refresh_display

Spec == Init /\ [][Next]_vars

\* a session over a stored collection: clock, reordering, refresh
NextOrder ==
    \/ Tick
    \/ \E item \in AllItems : move_to_top(item)
    \/ \E item \in AllItems : move_up_item(item)
    \/ refresh_display

SpecOrder == InitStore /\ [][NextOrder]_vars

\* that session with time passing and with the event loop running every
\* callback registered with root.after; the user's commands and the refresh
\* button may stay unused for ever
SpecTimer ==
    InitStore /\ [][NextOrder]_vars /\ WF_vars(Tick) /\ WF_vars(auto_refresh)

\* the same session over a stored collection that holds one more task
InitStoreMore == Loaded(MaxStore + 1)

SpecOrderMore == InitStoreMore /\ [][NextOrder]_vars

\* a session on the seconds scale: the clock moves, the task is completed
\* and reopened
NextCards ==
    \/ ClockJump
    \/ \E item \in AllItems : toggle_completion(item)

SpecCards == InitCards /\ [][NextCards]_vars

\* a session on the seconds scale that completes and reopens its tasks
NextStats ==
    \/ ClockStep
    \/ \E item \in AllItems : toggle_completion(item)

SpecStats == InitStats /\ [][NextStats]_vars

(* --------------------- the window and the tray icon ------------------- *)
\* the session is over once quit_app has run root.quit and root.destroy
Running == pc.tray # "quit"

\* the rest of the state of the tray: what a step names is what it writes
TrayKeeps(written) ==
    /\ "tray_icon" \notin written => tray_icon' = tray_icon
    /\ "tray_threads" \notin written => tray_threads' = tray_threads
    /\ "is_minimized_to_tray" \notin written
          => is_minimized_to_tray' = is_minimized_to_tray
    /\ "fade_steps" \notin written => fade_steps' = fade_steps
    /\ "pc" \notin written => pc' = pc
    /\ UNCHANGED <<writable, timer, warning>>

\* minimize_to_tray, the WM_DELETE_WINDOW handler: it starts a chain of
\* fade_step callbacks, whether or not an earlier chain is still running
minimize_to_tray ==
    /\ Running /\ pc.ui = "idle"
    /\ ~is_minimized_to_tray
    /\ fade_steps + tray_threads < MaxTray
    /\ fade_steps' = fade_steps + 1
    /\ TrayKeeps({"fade_steps"})
    /\ UNCHANGED <<todo_items, completed_items, next_id, now, data_file>>

\* the last fade_step of a chain, a callback of the event loop: the window
\* is withdrawn and create_tray_icon stores a new icon in self.tray_icon
\* and starts a thread that runs it
fade_step ==
    /\ Running /\ pc.ui = "idle"
    /\ fade_steps > 0
    /\ fade_steps' = fade_steps - 1
    /\ is_minimized_to_tray' = TRUE
    /\ tray_icon' = TRUE
    /\ tray_threads' = tray_threads + 1
    /\ TrayKeeps({"fade_steps", "is_minimized_to_tray", "tray_icon", "tray_threads"})
    /\ UNCHANGED <<todo_items, completed_items, next_id, now, data_file>>

\* show_app, a menu callback on the thread of a tray icon: the icon held
\* by self.tray_icon is stopped and the window shown; force_redraw follows
\* on the UI thread as a callback of the event loop
show_app ==
    /\ Running /\ pc.tray = "idle"
    /\ tray_threads > 0
    /\ tray_threads' = IF tray_icon THEN tray_threads - 1 ELSE tray_threads
    /\ tray_icon' = FALSE
    /\ is_minimized_to_tray' = FALSE
    /\ TrayKeeps({"tray_threads", "tray_icon", "is_minimized_to_tray"})
    /\ UNCHANGED <<todo_items, completed_items, next_id, now, data_file>>

\* force_redraw on the UI thread, or the refresh button
force_redraw ==
    /\ Running /\ pc.ui = "idle"
    /\ ~is_minimized_to_tray
    /\ refresh_display

\* quit_app, a menu callback on the thread of a tray icon, up to its call
\* of save_data
quit_app_begin ==
    /\ Running /\ pc.tray = "idle"
    /\ tray_threads > 0
    /\ pc' = [pc EXCEPT !.tray = "save_data"]
    /\ TrayKeeps({"pc"})
    /\ UNCHANGED <<todo_items, completed_items, next_id, now, data_file>>

\* the rest of quit_app: save_data writes the lists as they are at that
\* moment, root.quit and root.destroy end the session
quit_app_end ==
    /\ pc.tray = "save_data"
    /\ data_file' = IF writable
                    THEN Snapshot(todo_items, completed_items, next_id)
                    ELSE data_file
    /\ pc' = [pc EXCEPT !.tray = "quit"]
    /\ TrayKeeps({"pc"})
    /\ UNCHANGED <<todo_items, completed_items, next_id, now>>

\* toggle_completion on the UI thread up to the append: the task has its
\* new completed and completed_date and is in both lists
toggle_completion_begin(todo_item) ==
    LET new == IF ~todo_item.completed
               THEN [todo_item EXCEPT !.completed = TRUE, !.completed_date = now]
               ELSE [todo_item EXCEPT !.completed = FALSE, !.completed_date = NoTime]
        upd(l) == [i \in 1..Len(l) |-> IF l[i] = todo_item THEN new ELSE l[i]]
    IN /\ Running /\ pc.ui = "idle"
       /\ ~is_minimized_to_tray
       /\ IF ~todo_item.completed
          THEN /\ todo_items' = upd(todo_items)
               /\ completed_items' = Append(completed_items, new)
          ELSE /\ todo_items' = Append(todo_items, new)
               /\ completed_items' = upd(completed_items)
       /\ pc' = [pc EXCEPT !.ui = "toggle_completion"]
       /\ TrayKeeps({"pc"})
       /\ UNCHANGED <<next_id, now, data_file>>

\* the rest of toggle_completion: the remove from the list the task leaves,
\* refresh_display and save_data
toggle_completion_end ==
    /\ Running /\ pc.ui = "toggle_completion"
    /\ LET x == CHOOSE x \in Range(todo_items) \cap Range(completed_items) : TRUE
           items == IF x.completed THEN Remove(todo_items, x) ELSE todo_items
           completed == IF x.completed THEN completed_items
                        ELSE Remove(completed_items, x)
       IN \E split \in 0..Len(items) :
            /\ split < Len(items) => now < MaxTime * Minute
            /\ todo_items' = SortTodo(items, now, split)
            /\ completed_items' = completed
            /\ now' = ClockAfter(items, now, split)
    /\ next_id' = next_id
    /\ save_data
    /\ pc' = [pc EXCEPT !.ui = "idle"]
    /\ TrayKeeps({"pc"})

\* a session in which the window is closed to the tray and shown again,
\* tasks are completed and reopened, and the tray menu quits
NextTray ==
    \/ minimize_to_tray
    \/ fade_step
    \/ show_app
    \/ force_redraw
    \/ quit_app_begin
    \/ quit_app_end
    \/ \E item \in AllItems : toggle_completion_begin(item)
    \/ toggle_completion_end

SpecTray == InitGroup /\ [][NextTray]_vars

\* that session with the data saved and opened again (quit_app or
\* switch_user, then the next start), or opened again without a save
NextSave ==
    \/ ClockStep
    \/ \E item \in AllItems : toggle_completion(item)
    \/ \E quit \in BOOLEAN : initialize_application(quit)

SpecSave == InitStats /\ [][NextSave]_vars

\* the forms of that session: note "a", first date the moment 0, second
\* date of a period one minute later
DiskEntries(type) ==
    {[fmt |-> "ok", value |-> IF type = "long" THEN Minute ELSE 0]}

\* a session over a stored collection with every command, on a data file
\* that can be written or on one that cannot
NextDisk ==
    \/ Tick
    \/ \E type \in Kinds : \E e2 \in DiskEntries(type) :
         next_id <= MaxId /\ add_todo_item("a", type, [fmt |-> "ok", value |-> 0], e2)
    \/ \E item \in AllItems, type \in Kinds : \E e2 \in DiskEntries(type) :
         save_changes(item, "a", type, [fmt |-> "ok", value |-> 0], e2)
    \/ \E item \in AllItems : move_to_top(item)
    \/ \E item \in AllItems : move_up_item(item)
    \/ \E item \in AllItems : toggle_completion(item)
    \/ \E item \in AllItems, confirm \in BOOLEAN : delete_item_with_confirmation(item, confirm)
    \/ clear_completed

SpecDisk == InitDisk /\ [][NextDisk]_vars

\* a session that starts from a data file: add, complete and reopen,
\* delete, clear, and opening the data again
NextLoad ==
    \/ Tick
    \/ \E note \in NoteInputs, type \in Kinds :
         \E e1 \in FirstEntries(type), e2 \in SecondEntries(type) :
           /\ next_id <= MaxFile + MaxId
           /\ Len(todo_items) + Len(completed_items) <= MaxFile
           /\ add_todo_item(note, type, e1, e2)
    \/ \E item \in AllItems : toggle_completion(item)
    \/ \E item \in AllItems, confirm \in BOOLEAN : delete_item_with_confirmation(item, confirm)
    \/ clear_completed
    \/ \E quit \in BOOLEAN : initialize_application(quit)

SpecLoad == InitLoad /\ [][NextLoad]_vars

\* a session over a stored collection that also completes and reopens tasks
NextGroup ==
    \/ NextOrder
    \/ \E item \in AllItems : toggle_completion(item)

SpecGroup == InitGroup /\ [][NextGroup]_vars

(* ======================= properties of the ordering ===================== *)
\* position of the task with the given id in a list of tasks
Pos(s, id) == CHOOSE i \in 1..Len(s) : s[i].id = id

IsOverdue(t, n) ==
    \/ t.date_type = "instant" /\ n > t.date1
    \/ t.date_type = "long" /\ n > t.date2

IsOngoing(t, n) == t.date_type = "long" /\ t.date1 <= n /\ n <= t.date2

Tier(t, n) == IF IsOverdue(t, n) THEN 0 ELSE IF IsOngoing(t, n) THEN 1 ELSE 2

\* tiebreak timestamp of a timed task: due for overdue tasks, end for ongoing
\* tasks, start/due for tasks not yet due
Tiebreak(t, n) ==
    IF IsOverdue(t, n) THEN (IF t.date_type = "instant" THEN t.date1 ELSE t.date2)
    ELSE IF IsOngoing(t, n) THEN t.date2
    ELSE t.date1

\* the order refresh_display computes from the master list when every key
\* is taken at the one clock value now
Displayed == SortTodo(todo_items, now, Len(todo_items))

\* C1: for one value of now, the computed order places every overdue task
\* before every ongoing task and every ongoing task before every task that
\* is not yet due or timeless.
C1_TierOrder ==
    LET shown == Displayed IN
    \A i, j \in 1..Len(shown) :
        i < j => Tier(shown[i], now) <= Tier(shown[j], now)

\* all three tiers are present and the master list is not in that order yet
C1_Witness ==
    /\ \E t \in Range(todo_items) : Tier(t, now) = 0
    /\ \E t \in Range(todo_items) : Tier(t, now) = 1
    /\ \E t \in Range(todo_items) : Tier(t, now) = 2
    /\ Displayed # todo_items

\* C2: within a tier the computed order ascends by the tiebreak timestamp,
\* timeless tasks come after every timed task of tier 2, and tasks with
\* equal (tier, tiebreak), all timeless tasks among themselves included,
\* keep their relative master-list order.
C2_TiebreakOrder ==
    LET shown == Displayed IN
    \A i, j \in 1..Len(shown) :
        LET a == shown[i]
            b == shown[j]
        IN (i < j /\ Tier(a, now) = Tier(b, now)) =>
             /\ ~(a.date_type = "timeless" /\ b.date_type # "timeless")
             /\ (a.date_type # "timeless" /\ b.date_type # "timeless")
                  => Tiebreak(a, now) <= Tiebreak(b, now)
             /\ (\/ a.date_type = "timeless" /\ b.date_type = "timeless"
                 \/ /\ a.date_type # "timeless" /\ b.date_type # "timeless"
                    /\ Tiebreak(a, now) = Tiebreak(b, now))
                  => Pos(todo_items, a.id) < Pos(todo_items, b.id)

\* two tasks of different kinds tie on (tier, tiebreak), and two tasks of
\* one tier stand in the master list against their tiebreak order
C2_Witness ==
    /\ \E a, b \in Range(todo_items) :
         /\ a.date_type = "instant" /\ b.date_type = "long"
         /\ Tier(a, now) = Tier(b, now) /\ Tiebreak(a, now) = Tiebreak(b, now)
    /\ \E i, j \in 1..Len(todo_items) :
         /\ i < j
         /\ todo_items[i].date_type # "timeless" /\ todo_items[j].date_type # "timeless"
         /\ Tier(todo_items[i], now) = Tier(todo_items[j], now)
         /\ Tiebreak(todo_items[i], now) > Tiebreak(todo_items[j], now)

(* ======================== properties of the groups ====================== *)
\* same kind and identical anchors
SameAnchors(t, u) ==
    /\ u.date_type = t.date_type
    /\ t.date_type = "instant" => u.date1 = t.date1
    /\ t.date_type = "long" => (u.date1 = t.date1 /\ u.date2 = t.date2)

\* the open tasks that share kind and anchors with t
Companions(t) == {u \in Range(todo_items) : ~u.completed /\ SameAnchors(t, u)}

\* C3: groupOf(task) is, in master-list order, exactly the open tasks of the
\* kind of task with identical anchors (all timeless tasks together, instant
\* tasks with equal date1, spanning tasks with equal date1 and equal date2),
\* and it is the empty sequence when task is completed.
C3_GroupOf ==
    \A t \in AllItems :
        LET g == get_same_group_items(todo_items, t) IN
        IF t.completed THEN g = <<>>
        ELSE /\ Range(g) = Companions(t)
             /\ \A i, j \in 1..Len(g) :
                    i < j => Pos(todo_items, g[i].id) < Pos(todo_items, g[j].id)

\* a completed task shares kind and anchors with an open task, so that only
\* its completion keeps it out of that task's group
C3_Witness ==
    \E c \in Range(completed_items), t \in Range(todo_items) :
        c.completed /\ SameAnchors(t, c)

\* C4: every open task of the master list is a member of its own group, and
\* every member of its group has that same group.
C4_GroupReflexiveSymmetric ==
    \A t \in Range(todo_items) :
        LET g == get_same_group_items(todo_items, t) IN
        /\ t \in Range(g)
        /\ \A u \in Range(g) : get_same_group_items(todo_items, u) = g

\* a group of two or more instant tasks next to an instant task of another
\* due moment, after a reordering has put the group out of its stored order
C4_Witness ==
    \E t, u, x \in Range(todo_items) :
        /\ t.date_type = "instant" /\ x.date_type = "instant"
        /\ t.id < u.id /\ SameAnchors(t, u) /\ ~SameAnchors(t, x)
        /\ Pos(todo_items, u.id) < Pos(todo_items, t.id)

(* ====================== properties of the reordering =================== *)
\* the members of the group of t that stand before t in the master list
Predecessors(t) ==
    {u \in Companions(t) : Pos(todo_items, u.id) < Pos(todo_items, t.id)}

\* the first member of the group of t
FirstOfGroup(t) ==
    CHOOSE u \in Companions(t) :
        \A v \in Companions(t) : Pos(todo_items, u.id) <= Pos(todo_items, v.id)

\* C5: moveToTop(task) on a task that is not the first member of a group of
\* two or more relocates it in the master list to immediately precede the
\* group's former first member; when the group has at most one member or
\* the task is already first the master list is unchanged, so that a second
\* moveToTop on the same task is a no-op.
C5_MoveToTopRelocates ==
    [][\A item \in Range(todo_items) :
          move_to_top(item) =>
              IF Predecessors(item) # {}
              THEN /\ Pos(todo_items', item.id) + 1
                        = Pos(todo_items', FirstOfGroup(item).id)
                   /\ ~HasGroupPredecessor(todo_items', item)
              ELSE todo_items' = todo_items]_vars

\* the member of the group of t that stands just before t within the group
PredecessorInGroup(t) ==
    CHOOSE u \in Predecessors(t) :
        \A v \in Predecessors(t) : Pos(todo_items, v.id) <= Pos(todo_items, u.id)

\* the list s with the entries at positions i and j exchanged
Exchange(s, i, j) ==
    [k \in 1..Len(s) |-> IF k = i THEN s[j] ELSE IF k = j THEN s[i] ELSE s[k]]

\* C6: moveUpOne(task) on a task that is not the first member of its group
\* exchanges the master-list positions of the task and its immediate
\* predecessor within the group, every other task keeping its index; when
\* the group has at most one member or the task is already first the master
\* list is unchanged.
C6_MoveUpExchanges ==
    [][\A item \in Range(todo_items) :
          move_up_item(item) =>
              IF Predecessors(item) # {}
              THEN todo_items' = Exchange(todo_items,
                                          Pos(todo_items, item.id),
                                          Pos(todo_items, PredecessorInGroup(item).id))
              ELSE todo_items' = todo_items]_vars

\* the outcome of move_up_item(item) issued again and again on the master
\* list items until it returns early, every refresh taking its keys at now
RECURSIVE MoveUpUntilNoop(_, _)
MoveUpUntilNoop(items, item) ==
    IF ~HasGroupPredecessor(items, item) THEN items
    ELSE MoveUpUntilNoop(SortTodo(MoveUpList(items, item), now, Len(items)), item)

\* the outcome of one move_to_top(item) on the master list items, the
\* refresh taking its keys at now
MoveToTopOnce(items, item) ==
    IF ~HasGroupPredecessor(items, item) THEN items
    ELSE SortTodo(MoveToTopList(items, item), now, Len(items))

\* the tasks outside the group of t
Outsiders(t) == Range(todo_items) \ Companions(t)

\* the tasks outside the group of t that stand between the first member of
\* the group and t
OutsidersBetween(t) ==
    {x \in Outsiders(t) :
        /\ Pos(todo_items, FirstOfGroup(t).id) < Pos(todo_items, x.id)
        /\ Pos(todo_items, x.id) < Pos(todo_items, t.id)}

\* the members of the group of t as they stand in the list s
GroupIn(s, t) == SelectSeq(s, LAMBDA u : u \in Companions(t))

\* C7 as stated: from any master list and any open task, moveUpOne applied
\* to the task until it becomes a no-op yields the same final master-list
\* order as moveToTop applied once to the task from the same list.
C7_MoveUpRepeatedIsMoveToTop ==
    \A item \in Range(todo_items) :
        MoveUpUntilNoop(todo_items, item) = MoveToTopOnce(todo_items, item)

\* C7 as amended: for one clock value, moveUpOne applied to a task until it
\* becomes a no-op and moveToTop applied once leave the members of the
\* group in the same order, the task first; the two master lists are the
\* same when no task outside the group stands between the first member of
\* the group and the task.
C7_Amended ==
    \A item \in Range(todo_items) :
        LET up == MoveUpUntilNoop(todo_items, item)
            top == MoveToTopOnce(todo_items, item)
        IN /\ GroupIn(up, item) = GroupIn(top, item)
           /\ GroupIn(up, item)[1] = item \/ Predecessors(item) = {}
           /\ OutsidersBetween(item) = {} => up = top

\* a task with two members of its group before it and no other task among
\* them, in a group that an earlier reordering has put out of stored order
C7_Witness ==
    \E item \in Range(todo_items) :
        /\ Cardinality(Predecessors(item)) = 2
        /\ OutsidersBetween(item) = {}
        /\ \E u \in Predecessors(item) : u.id > item.id

C9_MovesFrame ==
    [][\A item \in Range(todo_items) :
          (move_to_top(item) \/ move_up_item(item)) =>
              /\ Range(todo_items') = Range(todo_items)
              /\ Len(todo_items') = Len(todo_items)
              /\ completed_items' = completed_items
              /\ next_id' = next_id
              /\ \A x, y \in Outsiders(item) :
                    Pos(todo_items, x.id) < Pos(todo_items, y.id)
                      => Pos(todo_items', x.id) < Pos(todo_items', y.id)]_vars

(* ===================== properties of the task records =================== *)
\* well-formed entries whose end is not after their start
EndNotAfterStart(e1, e2) ==
    e1.fmt = "ok" /\ e2.fmt = "ok" /\ ~(e2.value > e1.value)

\* C10: after any sequence of add and edit operations every spanning task
\* has date2 strictly after date1; an edit whose end is not after its start
\* is rejected and leaves every field of the edited record (note,
\* date_type, date1, date2) as it was.
C10_SpanningEndAfterStart ==
    [][/\ \A t \in Range(todo_items') \cup Range(completed_items') :
            t.date_type = "long" => t.date2 > t.date1
       /\ \A item \in AllItems, note \in NoteInputs \ {""}, e1, e2 \in Entries :
            (EndNotAfterStart(e1, e2) /\ save_changes(item, note, "long", e1, e2))
              => (todo_items' = todo_items /\ completed_items' = completed_items)
      ]_vars

\* an edit of a spanning task has just been rejected because its end was
\* not after its start
C10_Witness ==
    /\ warning = [op |-> "save_changes", why |-> "end_not_after_start"]
    /\ \E t \in AllItems : t.date_type = "long"

\* a form that fails validation: empty note, malformed date or time text,
\* or an end that is not after the start
FailsValidation(note, type, e1, e2) ==
    \/ note = ""
    \/ type # "timeless" /\ e1.fmt # "ok"
    \/ type = "long" /\ (e2.fmt # "ok" \/ ~(e2.value > e1.value))

\* the forms that fail validation
FailingForms ==
    {f \in [note : NoteInputs, type : Kinds, e1 : Entries, e2 : Entries] :
        /\ f.e1 \in FirstEntries(f.type) /\ f.e2 \in SecondEntries(f.type)
        /\ FailsValidation(f.note, f.type, f.e1, f.e2)}

\* C11: an add or edit that fails validation (empty note, malformed date or
\* time text, end not after start) changes nothing: the open list, the
\* completed list, next_id and every field of every task are as before.
C11_RejectedChangesNothing ==
    [][\A f \in FailingForms :
          (\/ add_todo_item(f.note, f.type, f.e1, f.e2)
           \/ \E item \in AllItems : save_changes(item, f.note, f.type, f.e1, f.e2))
            => /\ todo_items' = todo_items
               /\ completed_items' = completed_items
               /\ next_id' = next_id]_vars

\* an edit of a completed task has just been rejected for its date text
C11_Witness ==
    /\ warning = [op |-> "save_changes", why |-> "date_format"]
    /\ completed_items # <<>>

\* C12: in every state reached from an empty store by add, edit, toggle,
\* delete, reorder and clear, each task has date1 null exactly when it is
\* timeless, date2 non-null exactly when it is spanning, and completed_date
\* null exactly when completed is false.
C12_FieldsWellFormed ==
    \A t \in AllItems :
        /\ (t.date1 = NoTime) <=> (t.date_type = "timeless")
        /\ (t.date2 # NoTime) <=> (t.date_type = "long")
        /\ (t.completed_date = NoTime) <=> (t.completed = FALSE)

\* a completed instant task, completed after it was created
C12_Witness ==
    \E t \in Range(completed_items) :
        /\ t.date_type = "instant" /\ t.completed
        /\ t.completed_date > t.created_date

\* no two tasks of the two lists share an id, and next_id is above every id
IdsSound ==
    LET all_items == todo_items \o completed_items IN
    /\ \A i, j \in 1..Len(all_items) : i # j => all_items[i].id # all_items[j].id
    /\ \A i \in 1..Len(all_items) : next_id > all_items[i].id

\* C13: after any sequence of load (successful or failing), add, edit,
\* toggle, delete and clear, no two tasks in the open and completed lists
\* share an id, next_id is greater than every id present in either list, and
\* add never issues an id that was issued before in the same data set
\* (next_id never goes back, and the id add issues is next_id).
C13_IdsUniqueAndFresh ==
    [][/\ IdsSound
       /\ IdsSound'
       /\ next_id' >= next_id
       /\ \A t \in (Range(todo_items') \cup Range(completed_items')) \ AllItems :
             t.id >= next_id \/ \E u \in AllItems : u.id = t.id]_vars

(* ====================== properties of the status text ================== *)
\* the rule of the status text for a delta of s >= 0 seconds
Reported(s) ==
    IF s < 3600 THEN <<s \div 60, "minutes">>
    ELSE IF s < 86400 THEN <<s \div 3600, "hours">>
    ELSE <<s \div 86400, "days">>

Magnitude(card) == <<card.amount, card.unit>>

Incomplete(kind) == {t \in AllItems : ~t.completed /\ t.date_type = kind}

\* C14: for an incomplete Instant task the status is 'until due' computed on
\* due - now when now < due, 'overdue' computed on now - due when now > due,
\* and 'due today' when now equals due.
C14_InstantPhrase ==
    \A t \in Incomplete("instant") :
        LET card == get_time_info(t, now)
            due == t.date1
        IN /\ now < due => card.status = "until_due"
                            /\ Magnitude(card) = Reported(due - now)
           /\ now > due => card.status = "overdue"
                            /\ Magnitude(card) = Reported(now - due)
           /\ now = due => card.status = "due_today"

\* an open Instant task whose card reads 'due today' at its due moment
C14_Witness ==
    \E t \in Incomplete("instant") :
        now = t.date1 /\ get_time_info(t, now).status = "due_today"

\* C15: for an incomplete Spanning task the status is 'until start' on
\* start - now when now < start, 'until end' on end - now when
\* start <= now <= end (both bounds included), and 'overdue' on now - end
\* when now > end.
C15_SpanningPhrase ==
    \A t \in Incomplete("long") :
        LET card == get_time_info(t, now)
            start == t.date1
            end == t.date2
        IN /\ now < start => card.status = "until_start"
                              /\ Magnitude(card) = Reported(start - now)
           /\ (start <= now /\ now <= end) =>
                 card.status = "until_end" /\ Magnitude(card) = Reported(end - now)
           /\ now > end => card.status = "overdue"
                            /\ Magnitude(card) = Reported(now - end)

\* an open Spanning task whose card reads 0 minutes until the end at its
\* end moment
C15_Witness ==
    \E t \in Incomplete("long") :
        /\ now = t.date2
        /\ get_time_info(t, now) = [status |-> "until_end", amount |-> 0, unit |-> "minutes"]

\* the delta the status text of an incomplete dated task is computed on
Delta(t) ==
    IF t.date_type = "instant" THEN (IF now < t.date1 THEN t.date1 - now ELSE now - t.date1)
    ELSE IF now < t.date1 THEN t.date1 - now
    ELSE IF now <= t.date2 THEN t.date2 - now
    ELSE now - t.date2

\* C16: for incomplete tasks a delta of s >= 0 seconds is reported as
\* floor(s/60) minutes when s < 3600, as floor(s/3600) hours when
\* 3600 <= s < 86400 and in days when s >= 86400; 1800 s before the due
\* moment gives 30 minutes until due and 86400 s after it gives overdue by
\* 1 days.
C16_MagnitudeRule ==
    \A t \in Incomplete("instant") \cup Incomplete("long") :
        LET card == get_time_info(t, now)
            s == Delta(t)
        IN /\ (card.status # "due_today" /\ s < 3600) =>
                 card.amount = s \div 60 /\ card.unit = "minutes"
           /\ (3600 <= s /\ s < 86400) =>
                 card.amount = s \div 3600 /\ card.unit = "hours"
           /\ s >= 86400 => card.unit = "days" /\ card.amount = s \div 86400
           /\ (t.date_type = "instant" /\ t.date1 - now = 1800) =>
                 card = [status |-> "until_due", amount |-> 30, unit |-> "minutes"]
           /\ (t.date_type = "instant" /\ now - t.date1 = 86400) =>
                 card = [status |-> "overdue", amount |-> 1, unit |-> "days"]

\* an open Instant task whose card reads overdue by 1 days exactly one day
\* after its due moment
C16_Witness ==
    \E t \in Incomplete("instant") :
        /\ now - t.date1 = 86400
        /\ get_time_info(t, now) = [status |-> "overdue", amount |-> 1, unit |-> "days"]

\* completedAt - due of a completed dated task
Diff(t) == t.completed_date - (IF t.date_type = "instant" THEN t.date1 ELSE t.date2)

CompletedDated == {t \in Range(completed_items) : t.date_type # "timeless"}

\* C17: for every completed Instant or Spanning task with diff =
\* completedAt - due, the phrase is 'completed early' with the magnitude of
\* |diff| when diff < 0 and 'completed late' with the magnitude of diff when
\* diff >= 0, within six hours or not; a Spanning task completed 5 hours
\* after its end is bucketed OnTime and reads completed late by 5 hours.
C17_CompletedPhrase ==
    \A t \in CompletedDated :
        LET card == get_time_info(t, now) IN
        /\ Diff(t) < 0 => card.status = "early"
                           /\ Magnitude(card) = Reported(-Diff(t))
        /\ Diff(t) >= 0 => card.status = "late"
                            /\ Magnitude(card) = Reported(Diff(t))
        /\ (t.date_type = "long" /\ Diff(t) = 5 * 3600) =>
              /\ stats_bucket(t) = "on_time"
              /\ card = [status |-> "late", amount |-> 5, unit |-> "hours"]

\* the bucket of a completed task by the rule of the spec
ExpectedBucket(t) ==
    IF t.date_type = "timeless" THEN "timeless"
    ELSE IF Diff(t) < -21600 THEN "early"
    ELSE IF Diff(t) > 21600 THEN "late"
    ELSE "on_time"

RECURSIVE SumOver(_, _)
SumOver(f, S) ==
    IF S = {} THEN 0
    ELSE LET x == CHOOSE y \in S : TRUE IN f[x] + SumOver(f, S \ {x})

\* C18: every completed task is counted in exactly one of OnTime, Early,
\* Late, Timeless: Timeless tasks in Timeless, otherwise OnTime when
\* |diff| <= 6 h, Early when diff < -6 h, Late when diff > 6 h; the
\* statistics counter and the grouped export give each task the same bucket,
\* and the four counts sum to the number of completed tasks.
C18_BucketsPartition ==
    LET stats == get_completed_task_stats(completed_items)
        groups == export_groups(completed_items)
    IN /\ \A t \in Range(completed_items) :
             /\ stats_bucket(t) = ExpectedBucket(t)
             /\ export_bucket(t) = ExpectedBucket(t)
             /\ {b \in Buckets : t \in Range(groups[b])} = {ExpectedBucket(t)}
       /\ \A b \in Buckets :
             /\ stats[b] = Len(groups[b])
             /\ stats[b] = Cardinality({i \in 1..Len(completed_items) :
                                          ExpectedBucket(completed_items[i]) = b})
       /\ SumOver(stats, Buckets) = Len(completed_items)

\* one task completed exactly six hours late, counted OnTime, and another
\* completed one second later, counted Late
C18_Witness ==
    /\ \E t \in CompletedDated : Diff(t) = 21600
    /\ \E t \in CompletedDated : Diff(t) = 21601
    /\ get_completed_task_stats(completed_items) =
         [b \in Buckets |-> IF b \in {"on_time", "late"} THEN 1 ELSE 0]

\* C19: for a completed Instant or Spanning task with |diff| >= 86400 s the
\* number of days in the phrase is floor(|diff| / 86400) in both directions.
C19_DaysBothDirections ==
    \A t \in CompletedDated :
        LET card == get_time_info(t, now)
            s == IF Diff(t) < 0 THEN -Diff(t) ELSE Diff(t)
        IN s >= 86400 => card.unit = "days" /\ card.amount = s \div 86400

(* ================== properties of the completed display ================ *)
\* C20: completed tasks never appear in the priority ordering of open tasks
\* and are displayed in descending order of completedAt, most recently
\* completed first, whatever the order of the open tasks.
C20_CompletedApart ==
    LET shown == completed_sorted(completed_items) IN
    /\ \A t \in Range(Displayed) :
          ~t.completed /\ \A c \in Range(completed_items) : c.id # t.id
    /\ Len(shown) = Len(completed_items)
    /\ \A c \in Range(completed_items) : c \in Range(shown)
    /\ \A i, j \in 1..Len(shown) :
          i < j => shown[i].completed_date >= shown[j].completed_date

\* two completed tasks stored in the order of their completion and shown
\* the other way round, beside an open task list that is empty
C20_Witness ==
    /\ Len(completed_items) = 2
    /\ completed_items[1].completed_date < completed_items[2].completed_date
    /\ completed_sorted(completed_items) = <<completed_items[2], completed_items[1]>>

(* ==================== properties of the two lists ====================== *)
\* every task other than item is, unchanged, in the list it was in
OthersStay(item) ==
    /\ \A t \in Range(todo_items) : t.id # item.id => t \in Range(todo_items')
    /\ \A t \in Range(completed_items) : t.id # item.id => t \in Range(completed_items')
    /\ Len(todo_items') + Len(completed_items') = Len(todo_items) + Len(completed_items)

\* C21: toggle-completion on an open task sets completed to true and
\* completedAt to now and moves the task from the open list to the completed
\* list; on a completed task it sets completed to false and completedAt to
\* null and appends the task at the end of the open list; no other task's
\* fields change and the other tasks stay in the list they were in.
C21_ToggleMoves ==
    [][\A item \in AllItems :
          toggle_completion(item) =>
            /\ OthersStay(item)
            /\ IF ~item.completed
               THEN /\ [item EXCEPT !.completed = TRUE, !.completed_date = now]
                         \in Range(completed_items')
                    /\ \A t \in Range(todo_items') : t.id # item.id
               ELSE /\ todo_items' # <<>>
                    /\ todo_items'[Len(todo_items')] =
                         [item EXCEPT !.completed = FALSE, !.completed_date = NoTime]
                    /\ \A t \in Range(completed_items') : t.id # item.id]_vars

(* ===================== properties of the data file ===================== *)
\* C22: when any persisted record of a user's store fails to parse during
\* load, the whole load is rejected: afterwards the open list and the
\* completed list are both empty and next_id has its initial value.
C22_FailedLoadRejected ==
    [][\A quit \in BOOLEAN :
          (/\ initialize_application(quit)
           /\ data_file'.damage \in {"json", "todo_items", "completed_items"})
            => /\ todo_items' = <<>>
               /\ completed_items' = <<>>
               /\ next_id' = 1]_vars

\* a stored moment is the minute of the moment in memory
SameMinute(stored, t) ==
    IF t = NoTime THEN stored = NoTime
    ELSE stored # NoTime /\ stored % Minute = 0 /\ t - stored \in 0..(Minute - 1)

\* the record r of the data file is the task t
SameRecord(r, t) ==
    /\ r.id = t.id /\ r.note = t.note /\ r.date_type = t.date_type
    /\ r.date1 = t.date1 /\ r.date2 = t.date2
    /\ r.completed = t.completed
    /\ SameMinute(r.completed_date, t.completed_date)
    /\ SameMinute(r.created_date, t.created_date)

\* the data file is the full snapshot of the given lists and next_id
FileHolds(file, todo, completed, id) ==
    /\ file.damage = "none"
    /\ file.next_id = id
    /\ Len(file.todo_items) = Len(todo)
    /\ \A i \in 1..Len(todo) : SameRecord(file.todo_items[i], todo[i])
    /\ Len(file.completed_items) = Len(completed)
    /\ \A i \in 1..Len(completed) : SameRecord(file.completed_items[i], completed[i])

\* C23: every successful mutating command (add, edit, toggle-completion,
\* delete, moveToTop, moveUpOne, clear-completed) is followed, before the
\* next command is accepted, by a save of the full snapshot (open list in
\* master order, completed list, next_id) of the state after the mutation;
\* when that save fails the in-memory mutation is kept and later commands
\* still run.
C23_SavedAfterMutation ==
    /\ [][<<todo_items, completed_items, next_id>>' # <<todo_items, completed_items, next_id>>
          => IF writable
             THEN FileHolds(data_file', todo_items', completed_items', next_id')
             ELSE data_file' = data_file
      ]_vars
    /\ [](~writable /\ AllItems # {}
            => ENABLED (\E item \in AllItems : toggle_completion(item)))

\* two reordered open tasks in memory while the data file, which cannot be
\* written, still holds the order it was read in
C23_Witness ==
    /\ ~writable
    /\ Len(todo_items) = 2 /\ Len(data_file.todo_items) = 2
    /\ todo_items[1].id = data_file.todo_items[2].id
    /\ ~FileHolds(data_file, todo_items, completed_items, next_id)

\* the task with the given id in a list, as a set of at most one record
WithId(s, id) == {x \in Range(s) : x.id = id}

\* C24: the id and the creation time of a task never change, whatever the
\* command; an edit changes only the note, the kind and the anchors of the
\* edited task and keeps its completed flag, its completion time and the
\* list that holds it.
C24_IdentityKept ==
    [][/\ \A x \in AllItems : \A y \in AllItems' :
            y.id = x.id => y.created_date = x.created_date
       /\ {y.id : y \in AllItems'} \subseteq {x.id : x \in AllItems} \cup {next_id}
       /\ \A item \in AllItems, type \in Kinds : \A e2 \in DiskEntries(type) :
            save_changes(item, "a", type, [fmt |-> "ok", value |-> 0], e2)
              => /\ \A y \in WithId(todo_items', item.id) \cup WithId(completed_items', item.id) :
                      /\ y.completed = item.completed
                      /\ y.completed_date = item.completed_date
                      /\ y.created_date = item.created_date
                 /\ Cardinality(WithId(todo_items', item.id))
                      = Cardinality(WithId(todo_items, item.id))
                 /\ Cardinality(WithId(completed_items', item.id))
                      = Cardinality(WithId(completed_items, item.id))
                 /\ AllItems' \ WithId(todo_items' \o completed_items', item.id)
                      = AllItems \ {item}]_vars

\* a completed task, created before the present moment, whose kind an edit
\* has changed since the data file was read
C24_Witness ==
    \E x \in Range(completed_items) :
        /\ x.created_date < now
        /\ x.completed_date # NoTime
        /\ \E r \in Range(data_file.todo_items) \cup Range(data_file.completed_items) :
              r.id = x.id /\ r.date_type # x.date_type

\* C25: while a session is active a periodic timer refreshes the display
\* without any user action: whatever the user does or does not do, the
\* list is again and again in the order and state a refresh at the present
\* moment gives, and a callback of the timer is registered.
C25_TimerRefreshRecurs == []<>(timer /\ todo_items = Displayed)

\* C26: a display refresh computes the priority order without changing the
\* order of the master list of open tasks.
C26_RefreshKeepsMasterOrder ==
    [][refresh_display => todo_items' = todo_items]_vars

\* C28: a display refresh never changes the relative master-list order of
\* two members of the same group, also when the clock passes a deadline
\* during the refresh, so that a ranking made with moveToTop or moveUpOne
\* is the same after the refresh.
C28_RefreshKeepsGroupOrder ==
    [][refresh_display =>
          \A t \in Range(todo_items) : \A u \in Predecessors(t) :
              Pos(todo_items', u.id) < Pos(todo_items', t.id)]_vars

\* C29: saving the collection and loading it again gives the same state:
\* the same tasks in the same order in each list with every field equal
\* (the completion and creation times included) and the same next_id, so
\* that every completed task has the same completion bucket and the same
\* status phrase before the save and after the reload.
C29_SaveLoadRoundTrip ==
    [][initialize_application(TRUE) =>
          /\ completed_items' = completed_items
          /\ Range(todo_items') = Range(todo_items)
          /\ todo_items = Displayed => todo_items' = todo_items
          /\ next_id' = next_id
          /\ \A i \in 1..Len(completed_items) :
                /\ i <= Len(completed_items')
                /\ stats_bucket(completed_items'[i]) = stats_bucket(completed_items[i])
                /\ get_time_info(completed_items'[i], now')
                     = get_time_info(completed_items[i], now)]_vars

\* C30: in every state reached by add, edit, toggle-completion, delete,
\* reorder and clear-completed each task is in exactly one of the open list
\* and the completed list, at most once; every task of the open list has
\* completed false, and every task of the completed list has completed
\* true and a completion time.
C30_ListsPartition ==
    LET both == todo_items \o completed_items IN
    /\ \A i, j \in 1..Len(both) : both[i].id = both[j].id => i = j
    /\ \A x \in Range(todo_items) : ~x.completed
    /\ \A x \in Range(completed_items) : x.completed /\ x.completed_date # NoTime

\* one task completed, the other open and, edited since the data file was
\* read, of another kind than in the file
C30_Witness ==
    /\ Len(todo_items) = 1 /\ Len(completed_items) = 1
    /\ completed_items[1].completed_date > 0
    /\ \E r \in Range(data_file.todo_items) \cup Range(data_file.completed_items) :
          r.id = todo_items[1].id /\ r.date_type # todo_items[1].date_type

\* C27: there is exactly one mutator at a time: no save started from the
\* thread of a tray icon runs while a command on the UI thread is reading
\* or changing the collection, and at most one tray icon thread exists at
\* any time.
C27_OneMutator ==
    /\ ~(pc.tray = "save_data" /\ pc.ui # "idle")
    /\ tray_threads <= 1

=============================================================================
